---------------------------- MODULE Spec2Model ----------------------------
(***************************************************************************)
(* Model of the two Flask services of the repository:                      *)
(*   src/app1.py  the todo service, a CRUD facade over a Supabase table    *)
(*   src/app.py   the calculator service (divide and area handlers)        *)
(*                                                                         *)
(* JSON values are tagged records, strings are sequences of one-character  *)
(* strings, so that strip(), str(), int() and the `in` operator are        *)
(* computed the way Python computes them.                                  *)
(***************************************************************************)
EXTENDS Integers, Sequences, FiniteSets, Bags, TLC

VARIABLES
    todos,      \* rows of the remote 'todos' table
    nextId,     \* next id the store assigns on insert
    pending,    \* bag of the DELETE requests between their two store calls
    last,       \* the todo request that completed last, with its response
    calc        \* the calculator request that completed last, with its response

vars == <<todos, nextId, pending, last, calc>>

\* ------------------------------------------------------------------ bounds

MaxId == 2      \* ids the store hands out before inserts are cut off
NumReq == 2     \* requests the WSGI server handles concurrently
BigPad == 400   \* zeros appended to a query operand to make it a huge integer

Ids == 1..MaxId

\* ------------------------------------------------------------- JSON values

JNull == [t |-> "null"]
JNum(n) == [t |-> "num", n |-> n]
JFloat(tenths) == [t |-> "float", tenths |-> tenths]
JBool(b) == [t |-> "bool", b |-> b]
JStr(s) == [t |-> "str", s |-> s]
JArr(a) == [t |-> "arr", a |-> a]
JObj(f) == [t |-> "obj", f |-> f]

\* Python string literals of the source, spelled as character sequences
TaskKey == <<"t", "a", "s", "k">>
WidthKey == <<"w", "i", "d", "t", "h">>
HeightKey == <<"h", "e", "i", "g", "h", "t">>
Medium == <<"M", "e", "d", "i", "u", "m">>
High == <<"H", "i", "g", "h">>
KeyChars == [task |-> TaskKey, width |-> WidthKey, height |-> HeightKey]

Whitespace == {" "}
Digits == <<"0", "1", "2", "3", "4", "5", "6", "7", "8", "9">>

\* ---------------------------------------------------------- Python helpers

RECURSIVE LStrip(_)
LStrip(s) ==
    IF s # <<>> /\ Head(s) \in Whitespace THEN LStrip(Tail(s)) ELSE s

RECURSIVE RStrip(_)
RStrip(s) ==
    IF s # <<>> /\ s[Len(s)] \in Whitespace
    THEN RStrip(SubSeq(s, 1, Len(s) - 1))
    ELSE s

\* str.strip()
Strip(s) == RStrip(LStrip(s))

RECURSIVE NatStr(_)
NatStr(n) ==
    IF n < 10 THEN <<Digits[n + 1]>> ELSE NatStr(n \div 10) \o <<Digits[(n % 10) + 1]>>

\* str(v) for a decoded JSON scalar
PyStr(v) ==
    CASE v.t = "str" -> v.s
      [] v.t = "null" -> <<"N", "o", "n", "e">>
      [] v.t = "bool" -> IF v.b THEN <<"T", "r", "u", "e">> ELSE <<"F", "a", "l", "s", "e">>
      [] v.t = "num" -> IF v.n < 0 THEN <<"-">> \o NatStr(-v.n) ELSE NatStr(v.n)

\* bool(v): the truth value `not data` negates
Truthy(v) ==
    CASE v.t = "null" -> FALSE
      [] v.t = "obj" -> DOMAIN v.f # {}
      [] v.t = "arr" -> v.a # <<>>
      [] v.t = "str" -> v.s # <<>>
      [] v.t = "num" -> v.n # 0
      [] v.t = "float" -> v.tenths # 0
      [] v.t = "bool" -> v.b

IsSubstring(sub, s) ==
    \E i \in 0..(Len(s) - Len(sub)) : SubSeq(s, i + 1, i + Len(sub)) = sub

\* `key in data`: "yes", "no", or "TypeError" (int and bool are not iterable)
Contains(key, data) ==
    CASE data.t = "obj" -> IF key \in DOMAIN data.f THEN "yes" ELSE "no"
      [] data.t = "arr" ->
            IF \E i \in 1..Len(data.a) : data.a[i] = JStr(KeyChars[key]) THEN "yes" ELSE "no"
      [] data.t = "str" -> IF IsSubstring(KeyChars[key], data.s) THEN "yes" ELSE "no"
      [] OTHER -> "TypeError"

\* `data[key]` with a str key succeeds on a dict only
Subscriptable(data) == data.t = "obj"


\* ------------------------------------------------------- the remote store

\* One remote call as the service sees it: the table operation, the id it is
\* filtered by (0: unfiltered), the payload sent, whether the client raised, and
\* the rows the store matched when the call executed.
StoreCall(name, filter, payload, raised, rows) ==
    [name |-> name, filter |-> filter, payload |-> payload, raised |-> raised, rows |-> rows]

\* .eq("id", id)
Matching(rows, id) == {row \in rows : row.id = JNum(id)}

\* .insert(record): the store assigns the id
Inserted(record, id) ==
    [id |-> JNum(id), task |-> record.task, is_complete |-> record.is_complete,
     priority |-> record.priority]

\* .update(payload) applied to one row: the columns named by the payload are replaced
Merge(row, payload) ==
    [k \in DOMAIN row |-> IF k \in DOMAIN payload THEN payload[k] ELSE row[k]]

\* .update(payload).eq("id", id) over the table
Updated(rows, id, payload) ==
    {IF row.id = JNum(id) THEN Merge(row, payload) ELSE row : row \in rows}

\* .select("id"): the id column only
IdColumn(rows) == {[id |-> row.id] : row \in rows}

\* ------------------------------------------------------ requests/responses

NoBody == JNull

Response(op, id, body, status, kind, error, data, calls, raced) ==
    [op |-> op, id |-> id, body |-> body, status |-> status, kind |-> kind,
     error |-> error, data |-> data, calls |-> calls, raced |-> raced]

\* a handler returned jsonify(...), status
Json(op, id, body, status, error, data, calls) ==
    Response(op, id, body, status, "json", error, data, calls, FALSE)

\* an exception left the handler: Flask answers 500 with its own error page
Unhandled(op, id, body, exc) ==
    Response(op, id, body, 500, "unhandled", exc, {}, <<>>, FALSE)

\* a worker is free to take the next request
FreeWorker == BagCardinality(pending) < NumReq

\* health_check answering like the CRUD handlers
StoreErrorStatus_All500(op) == 500

\* status of the `except Exception` branch of each handler
StoreErrorStatus(op) == IF op = "health" THEN 503 ELSE 500

\* message of the `except Exception` branch of each handler
StoreErrorMessage(op) ==
    CASE op = "create" -> "Server error"
      [] op = "list" -> "Failed to fetch todos"
      [] op = "get" -> "Failed to fetch todo"
      [] op = "update" -> "Failed to update todo"
      [] op = "delete" -> "Failed to delete todo"
      [] op = "health" -> "unhealthy/disconnected"

Caught(op, id, body, calls) ==
    Json(op, id, body, StoreErrorStatus(op), StoreErrorMessage(op), {}, calls)

\* -------------------------------------------------------------- create_todo

NewTask(data) == Strip(PyStr(data.f.task))

NewRecord(data) ==
    [task |-> JStr(NewTask(data)),
     is_complete |-> JBool(FALSE),
     priority |-> IF "priority" \in DOMAIN data.f THEN data.f.priority ELSE JStr(Medium)]

\* the path create_todo takes up to its store call
CreateValidate(data) ==
    IF ~Truthy(data) THEN "missing"
    ELSE IF Contains("task", data) = "TypeError" THEN "unhandled"
    ELSE IF Contains("task", data) = "no" THEN "missing"
    ELSE IF ~Subscriptable(data) THEN "caught"
    ELSE IF NewTask(data) = <<>> THEN "empty"
    ELSE "insert"

CreateTodo(data, outcome) ==
    LET path == CreateValidate(data)
        record == NewRecord(data)
        row == Inserted(record, nextId)
    IN
    /\ FreeWorker
    /\ pending' = pending
    /\ calc' = calc
    /\ CASE path = "missing" ->
              /\ outcome = "ok"
              /\ last' = Json("create", 0, data, 400, "Missing 'task' in JSON body", {}, <<>>)
              /\ UNCHANGED <<todos, nextId>>
         [] path = "unhandled" ->
              /\ outcome = "ok"
              /\ last' = Unhandled("create", 0, data, "TypeError")
              /\ UNCHANGED <<todos, nextId>>
         [] path = "caught" ->
              /\ outcome = "ok"
              /\ last' = Caught("create", 0, data, <<>>)
              /\ UNCHANGED <<todos, nextId>>
         [] path = "empty" ->
              /\ outcome = "ok"
              /\ last' = Json("create", 0, data, 400, "Task cannot be empty", {}, <<>>)
              /\ UNCHANGED <<todos, nextId>>
         [] path = "insert" /\ outcome = "raise" ->
              /\ last' = Caught("create", 0, data,
                                <<StoreCall("insert", 0, record, TRUE, {})>>)
              /\ UNCHANGED <<todos, nextId>>
         [] path = "insert" /\ outcome = "empty" ->
              /\ last' = Json("create", 0, data, 500, "Failed to create todo", {},
                              <<StoreCall("insert", 0, record, FALSE, {})>>)
              /\ UNCHANGED <<todos, nextId>>
         [] path = "insert" /\ outcome = "ok" ->
              /\ nextId <= MaxId
              /\ todos' = todos \cup {row}
              /\ nextId' = nextId + 1
              /\ last' = Json("create", 0, data, 201, "", {row},
                              <<StoreCall("insert", 0, record, FALSE, {row})>>)

\* ---------------------------------------------------------------- get_todos

GetTodos(outcome) ==
    /\ FreeWorker
    /\ UNCHANGED <<todos, nextId, pending, calc>>
    /\ last' = IF outcome = "raise"
               THEN Caught("list", 0, NoBody, <<StoreCall("select", 0, JNull, TRUE, todos)>>)
               ELSE Json("list", 0, NoBody, 200, "", todos,
                         <<StoreCall("select", 0, JNull, FALSE, todos)>>)

\* ----------------------------------------------------------------- get_todo

GetTodo(id, outcome) ==
    LET rows == Matching(todos, id)
        call == StoreCall("select", id, JNull, outcome = "raise", rows)
    IN
    /\ FreeWorker
    /\ UNCHANGED <<todos, nextId, pending, calc>>
    /\ last' = IF outcome = "raise" THEN Caught("get", id, NoBody, <<call>>)
               ELSE IF rows = {} THEN Json("get", id, NoBody, 404, "Todo not found", {}, <<call>>)
               ELSE Json("get", id, NoBody, 200, "", rows, <<call>>)

\* -------------------------------------------------------------- update_todo

\* update_todo sending the body as it came, `id` included
UpdateData_KeepId(data) == JObj(data.f)

\* {k: v for k, v in data.items() if k != 'id'}
UpdateData(data) == JObj([k \in DOMAIN data.f \ {"id"} |-> data.f[k]])

\* the path update_todo takes up to its store call
UpdateValidate(data) ==
    IF ~Truthy(data) THEN "nodata"
    ELSE IF data.t # "obj" THEN "caught"
    ELSE IF ~Truthy(UpdateData(data)) THEN "novalid"
    ELSE "update"

UpdateTodo(id, data, outcome) ==
    LET path == UpdateValidate(data)
        payload == UpdateData(data)
        after == Updated(todos, id, payload.f)
        rows == Matching(todos, id)
        changed == {Merge(row, payload.f) : row \in rows}
    IN
    /\ FreeWorker
    /\ UNCHANGED <<nextId, pending, calc>>
    /\ CASE path = "nodata" ->
              /\ outcome = "ok"
              /\ last' = Json("update", id, data, 400, "No data provided for update", {}, <<>>)
              /\ todos' = todos
         [] path = "caught" ->
              /\ outcome = "ok"
              /\ last' = Caught("update", id, data, <<>>)
              /\ todos' = todos
         [] path = "novalid" ->
              /\ outcome = "ok"
              /\ last' = Json("update", id, data, 400, "No valid fields to update", {}, <<>>)
              /\ todos' = todos
         [] path = "update" /\ outcome = "raise" ->
              /\ last' = Caught("update", id, data,
                                <<StoreCall("update", id, payload, TRUE, rows)>>)
              /\ todos' = todos
         [] path = "update" /\ outcome = "ok" ->
              /\ todos' = after
              /\ last' = IF changed = {}
                         THEN Json("update", id, data, 404, "Todo not found", {},
                                   <<StoreCall("update", id, payload, FALSE, {})>>)
                         ELSE Json("update", id, data, 200, "", changed,
                                   <<StoreCall("update", id, payload, FALSE, changed)>>)

\* -------------------------------------------------------------- delete_todo

\* delete_todo without the early return on an empty existence check
CheckPath_NoReturn(raised, rows) ==
    IF raised THEN "failed" ELSE "found"

\* delete_todo carrying on to the delete call after a failed existence check
CheckPath_Swallow(raised, rows) ==
    IF rows = {} THEN "absent" ELSE "found"

\* what delete_todo does with the answer of its existence check
CheckPath(raised, rows) ==
    IF raised THEN "failed"
    ELSE IF rows = {} THEN "absent"
    ELSE "found"

\* a DELETE request that passed its existence check and has not deleted yet
Checked(id, call) == [id |-> id, calls |-> <<call>>, raced |-> FALSE]

RECURSIVE SumCounts(_, _)
SumCounts(bag, S) ==
    IF S = {} THEN 0
    ELSE LET x == CHOOSE y \in S : TRUE IN bag[x] + SumCounts(bag, S \ {x})

\* the requests of `bag` waiting to delete `id` learn that its row is gone
Overtaken(bag, id) ==
    LET mark(x) == IF x.id = id THEN [x EXCEPT !.raced = TRUE] ELSE x
    IN [y \in {mark(x) : x \in DOMAIN bag} |->
            SumCounts(bag, {x \in DOMAIN bag : mark(x) = y})]

\* the existence check: select("id").eq("id", todo_id)
DeleteCheck(id, outcome) ==
    LET rows == IdColumn(Matching(todos, id))
        call == StoreCall("select", id, JNull, outcome = "raise", rows)
        path == CheckPath(outcome = "raise", rows)
    IN
    /\ FreeWorker
    /\ UNCHANGED <<todos, nextId, calc>>
    /\ CASE path = "failed" ->
              /\ last' = Caught("delete", id, NoBody, <<call>>)
              /\ pending' = pending
         [] path = "absent" ->
              /\ last' = Json("delete", id, NoBody, 404, "Todo not found", {}, <<call>>)
              /\ pending' = pending
         [] path = "found" ->
              /\ last' = last
              /\ pending' = pending (+) SetToBag({Checked(id, call)})

\* the delete call: delete().eq("id", todo_id), then the response
DeleteCall(req, outcome) ==
    LET id == req.id
        rows == Matching(todos, id)
        call == StoreCall("delete", id, JNull, outcome = "raise", IdColumn(rows))
        calls == Append(req.calls, call)
        others == pending (-) SetToBag({req})
    IN
    /\ BagIn(req, pending)
    /\ UNCHANGED <<nextId, calc>>
    /\ IF outcome = "raise"
       THEN /\ todos' = todos
            /\ pending' = others
            /\ last' = Response("delete", id, NoBody, StoreErrorStatus("delete"), "json",
                                StoreErrorMessage("delete"), {}, calls, req.raced)
       ELSE /\ todos' = todos \ rows
            /\ pending' = IF rows = {} THEN others ELSE Overtaken(others, id)
            /\ last' = Response("delete", id, NoBody, 200, "json", "", {}, calls, req.raced)

\* ------------------------------------------------------------- health_check

HealthCheck(outcome) ==
    LET rows == IdColumn(todos)
        call == StoreCall("select", 0, JNull, outcome = "raise", rows)
    IN
    /\ FreeWorker
    /\ UNCHANGED <<todos, nextId, pending, calc>>
    /\ last' = IF outcome = "raise"
               THEN Caught("health", 0, NoBody, <<call>>)
               ELSE Json("health", 0, NoBody, 200, "healthy/connected", {}, <<call>>)

\* ------------------------------------------------- calculator: int parsing

\* A Python int, m * 10^e (arbitrary precision: a long operand keeps its size)
PyInt(m, e) == [m |-> m, e |-> e]

\* A query-string value: `text` followed by `pad` more "0" characters
QueryText(text, pad) == [present |-> TRUE, text |-> text, pad |-> pad]
Absent == [present |-> FALSE, text |-> <<>>, pad |-> 0]

IsDigit(c) == \E i \in 1..10 : Digits[i] = c
DigitValue(c) == (CHOOSE i \in 1..10 : Digits[i] = c) - 1

\* the text between the optional sign and the end, whitespace stripped
Unsigned(s) ==
    LET t == Strip(s)
    IN IF t # <<>> /\ Head(t) \in {"+", "-"} THEN Tail(t) ELSE t

\* int(s) accepts s: optional whitespace, optional sign, one or more digits
IsIntText(s) ==
    /\ Unsigned(s) # <<>>
    /\ \A i \in 1..Len(Unsigned(s)) : IsDigit(Unsigned(s)[i])

RECURSIVE DigitsValue(_)
DigitsValue(u) ==
    IF u = <<>> THEN 0
    ELSE 10 * DigitsValue(SubSeq(u, 1, Len(u) - 1)) + DigitValue(u[Len(u)])

\* int(s) for an accepted s
IntText(s) ==
    LET t == Strip(s)
    IN IF Head(t) = "-" THEN -DigitsValue(Unsigned(s)) ELSE DigitsValue(Unsigned(s))

\* int(request.args.get(name, 0)): [ok, val], ok = FALSE for ValueError
ParseArg(arg) ==
    LET s == IF arg.pad > 0 THEN arg.text \o <<"0">> ELSE arg.text
    IN IF ~arg.present THEN [ok |-> TRUE, val |-> PyInt(0, 0)]
       ELSE IF ~IsIntText(s) THEN [ok |-> FALSE, val |-> PyInt(0, 0)]
       ELSE IF arg.pad > 0 THEN [ok |-> TRUE, val |-> PyInt(IntText(s) \div 10, arg.pad)]
       ELSE [ok |-> TRUE, val |-> PyInt(IntText(s), 0)]

RECURSIVE NumDigits(_)
NumDigits(n) == IF n < 10 THEN 1 ELSE 1 + NumDigits(n \div 10)

Abs(n) == IF n < 0 THEN -n ELSE n

\* decimal digits of a nonzero Python int
Magnitude(x) == NumDigits(Abs(x.m)) + x.e

\* sys.float_info.max_10_exp: 10^308 is a float, 10^309 is not
FloatMax10Exp == 308

\* int / int raises OverflowError when the quotient is too large for a float.
\* 10^(d - 1) < |a/b| < 10^(d + 1) for d = Magnitude(a) - Magnitude(b), so the
\* test is exact except for d = FloatMax10Exp or FloatMax10Exp + 1, which no
\* pair of operands below reaches.
TooLargeForFloat(a, b) == Magnitude(a) - Magnitude(b) - 1 > FloatMax10Exp

\* ------------------------------------------------------------ divide_numbers

CalcResponse(op, a, b, body, status, kind, error, result) ==
    [op |-> op, a |-> a, b |-> b, body |-> body, status |-> status, kind |-> kind,
     error |-> error, result |-> result]

\* a / b as the exact quotient of the two ints
Quotient(a, b) == [num |-> a, den |-> b]

\* the path divide_numbers takes
DividePath(argA, argB) ==
    IF ~ParseArg(argA).ok THEN "ValueError"
    ELSE IF ~ParseArg(argB).ok THEN "ValueError"
    ELSE IF ParseArg(argB).val.m = 0 THEN "zero"
    ELSE IF TooLargeForFloat(ParseArg(argA).val, ParseArg(argB).val) THEN "OverflowError"
    ELSE "divide"

DivideNumbers(argA, argB) ==
    LET path == DividePath(argA, argB)
    IN
    /\ UNCHANGED <<todos, nextId, pending, last>>
    /\ calc' =
         CASE path = "ValueError" ->
                CalcResponse("divide", argA, argB, JNull, 400, "json",
                             "Invalid input: 'a' and 'b' must be integers", 0)
           [] path = "zero" ->
                CalcResponse("divide", argA, argB, JNull, 400, "json",
                             "Division by zero is not allowed", 0)
           [] path = "OverflowError" ->
                CalcResponse("divide", argA, argB, JNull, 500, "unhandled", "OverflowError", 0)
           [] path = "divide" ->
                CalcResponse("divide", argA, argB, JNull, 200, "json", "",
                             Quotient(ParseArg(argA).val, ParseArg(argB).val))

\* ------------------------------------------------------------ calculate_area

\* int(v) for a decoded JSON value: [exc, val], exc = "" when it returns
IntOf(v) ==
    CASE v.t = "num" -> [exc |-> "", val |-> v.n]
      [] v.t = "bool" -> [exc |-> "", val |-> IF v.b THEN 1 ELSE 0]
      [] v.t = "float" ->
            [exc |-> "",
             val |-> IF v.tenths < 0 THEN -((-v.tenths) \div 10) ELSE v.tenths \div 10]
      [] v.t = "str" ->
            IF IsIntText(v.s) THEN [exc |-> "", val |-> IntText(v.s)]
            ELSE [exc |-> "ValueError", val |-> 0]
      [] OTHER -> [exc |-> "TypeError", val |-> 0]

\* the path calculate_area takes
AreaPath(data) ==
    IF ~Truthy(data) THEN "missing"
    ELSE IF Contains("width", data) = "TypeError" THEN "unhandled"
    ELSE IF Contains("width", data) = "no" THEN "missing"
    ELSE IF Contains("height", data) = "no" THEN "missing"
    ELSE IF ~Subscriptable(data) THEN "TypeError"
    ELSE IF IntOf(data.f.width).exc # "" THEN IntOf(data.f.width).exc
    ELSE IF IntOf(data.f.height).exc # "" THEN IntOf(data.f.height).exc
    ELSE "area"

CalculateArea(data) ==
    LET path == AreaPath(data)
    IN
    /\ UNCHANGED <<todos, nextId, pending, last>>
    /\ calc' =
         CASE path = "missing" ->
                CalcResponse("area", Absent, Absent, data, 400, "json",
                             "Missing 'width' or 'height' in JSON body", 0)
           [] path = "unhandled" ->
                CalcResponse("area", Absent, Absent, data, 500, "unhandled", "TypeError", 0)
           [] path = "ValueError" ->
                CalcResponse("area", Absent, Absent, data, 400, "json",
                             "Width and height must be integers", 0)
           [] path = "TypeError" ->
                CalcResponse("area", Absent, Absent, data, 400, "json",
                             "Invalid JSON format", 0)
           [] path = "area" ->
                CalcResponse("area", Absent, Absent, data, 200, "json", "square units",
                             IntOf(data.f.width).val * IntOf(data.f.height).val)

\* ------------------------------------------------------------------ inputs

Outcomes == {"ok", "raise"}
InsertOutcomes == {"ok", "empty", "raise"}

\* bodies that are not JSON objects, and the empty object
OddBodies ==
    { JNull,
      JObj(<<>>),
      JArr(<<JStr(TaskKey)>>),
      JStr(TaskKey \o <<"s">>),
      JNum(5) }

CreateBodies ==
    OddBodies \cup
    { JObj([task |-> JStr(<<" ", "a", " ">>)]),
      JObj([task |-> JStr(<<"a">>), priority |-> JStr(High), is_complete |-> JBool(TRUE)]),
      JObj([task |-> JStr(<<" ", " ">>)]),
      JObj([task |-> JStr(<<>>)]),
      JObj([task |-> JNull]),
      JObj([priority |-> JStr(High)]) }

UpdateBodies ==
    OddBodies \cup
    { JObj([id |-> JNum(9), priority |-> JStr(High)]),
      JObj([task |-> JStr(<<" ">>), priority |-> JStr(High)]),
      JObj([id |-> JNum(9)]) }

\* the table when the service starts: empty, or holding a row created earlier
InitialStores ==
    { {},
      {[id |-> JNum(1), task |-> JStr(<<"a">>), is_complete |-> JBool(FALSE),
        priority |-> JStr(Medium)]} }

\* query values of /divide: absent, and texts with or without a long run of zeros
QueryArgs ==
    { Absent,
      QueryText(<<>>, 0),
      QueryText(<<"f", "o", "o">>, 0),
      QueryText(<<"0">>, 0),
      QueryText(<<"4">>, 0),
      QueryText(<<"-", "3">>, 0),
      QueryText(<<" ", "1", "0", "0">>, 0),
      QueryText(<<"1">>, BigPad) }

\* values of `width` and `height`
AreaValues ==
    { JNum(5), JNum(-2), JFloat(25), JStr(<<"7">>), JStr(<<"x">>), JNull, JBool(TRUE) }

AreaBodies ==
    { JNull, JObj(<<>>), JNum(5),
      JArr(<<JStr(WidthKey), JStr(HeightKey)>>),
      JStr(WidthKey \o HeightKey) }
    \cup {JObj([width |-> w]) : w \in AreaValues}
    \cup {JObj([height |-> h]) : h \in AreaValues}
    \cup {JObj([width |-> w, height |-> h]) : w \in AreaValues, h \in AreaValues}

\* every shape a request waiting between its check and its delete call can have
PendingShapes ==
    { [id |-> id,
       calls |-> <<StoreCall("select", id, JNull, raised,
                             IF found THEN {[id |-> JNum(id)]} ELSE {})>>,
       raced |-> raced] :
        id \in Ids, raised \in BOOLEAN, found \in BOOLEAN, raced \in BOOLEAN }

NoRequest == Json("none", 0, NoBody, 0, "", {}, <<>>)
NoCalc == [op |-> "none"]

\* ------------------------------------------------------------ specification

Init ==
    /\ todos \in InitialStores
    /\ nextId = Cardinality(todos) + 1
    /\ pending = EmptyBag
    /\ last = NoRequest
    /\ calc = NoCalc

Next ==
    \/ \E data \in CreateBodies, outcome \in InsertOutcomes : CreateTodo(data, outcome)
    \/ \E outcome \in Outcomes : GetTodos(outcome)
    \/ \E id \in Ids, outcome \in Outcomes : GetTodo(id, outcome)
    \/ \E id \in Ids, data \in UpdateBodies, outcome \in Outcomes : UpdateTodo(id, data, outcome)
    \/ \E id \in Ids, outcome \in Outcomes : DeleteCheck(id, outcome)
    \/ \E req \in PendingShapes, outcome \in Outcomes : DeleteCall(req, outcome)
    \/ \E outcome \in Outcomes : HealthCheck(outcome)

Spec == Init /\ [][Next]_vars

CalcNext ==
    \/ \E argA \in QueryArgs, argB \in QueryArgs : DivideNumbers(argA, argB)
    \/ \E data \in AreaBodies : CalculateArea(data)

CalcSpec == Init /\ [][CalcNext]_vars

\* ================================================================== claims

InsertCalls == {i \in 1..Len(last.calls) : last.calls[i].name = "insert"}
RaisedCalls == {i \in 1..Len(last.calls) : last.calls[i].raised}

\* a JSON value that is a string with something left after trimming
NonBlank(v) == v.t = "str" /\ Strip(v.s) # <<>>

\* C1: every row held by the store has a task that is non-empty after trimming,
\* whatever sequence of create, update and delete requests was served.
C1_TasksNonBlank == \A row \in todos : NonBlank(row.task)

\* C2: POST /api/todos inserts exactly when the body carries a task that is
\* non-empty after trimming, and answers 400 otherwise; the record sent has the
\* trimmed task, is_complete false and the body's priority or "Medium"; a store
\* reply carrying the inserted row yields 201 with that row.
C2_CreateContract ==
    last.op = "create" =>
        LET body == last.body
            wanted == body.t = "obj" /\ "task" \in DOMAIN body.f /\ NonBlank(body.f.task)
        IN
        /\ (InsertCalls # {}) <=> wanted
        /\ InsertCalls = {} => last.status = 400
        /\ \A i \in InsertCalls :
              LET call == last.calls[i] IN
              /\ call.payload.task = JStr(Strip(body.f.task.s))
              /\ call.payload.is_complete = JBool(FALSE)
              /\ call.payload.priority =
                    (IF "priority" \in DOMAIN body.f THEN body.f.priority ELSE JStr(Medium))
              /\ (~call.raised /\ call.rows # {}) =>
                    (last.status = 201 /\ last.data = call.rows)

\* C3: a PUT sends a payload without the key `id`, filtered by the path id; only
\* the row with the path id can change, it keeps its id, every other row is left
\* alone, and a body whose only key is `id` is answered 400 without a store call.
C3_UpdateFrame ==
    [][last'.op = "update" =>
        /\ \A i \in 1..Len(last'.calls) :
              /\ last'.calls[i].name = "update"
              /\ "id" \notin DOMAIN last'.calls[i].payload.f
              /\ last'.calls[i].filter = last'.id
        /\ \A row \in todos : row.id # JNum(last'.id) => row \in todos'
        /\ \A row \in todos' : row \notin todos => row.id = JNum(last'.id)
        /\ {row.id : row \in todos'} = {row.id : row \in todos}
        /\ (last'.body.t = "obj" /\ DOMAIN last'.body.f = {"id"}) =>
              (last'.status = 400 /\ last'.calls = <<>>)
    ]_vars

C3_Witness ==
    /\ last.op = "update"
    /\ last.status = 200
    /\ "id" \in DOMAIN last.body.f
    /\ last.body.f.id # JNum(last.id)
    /\ \E row \in todos : row.id = JNum(last.id) /\ row.priority = JStr(High)
    /\ \E row \in todos : row.id # JNum(last.id)

\* C4: a DELETE whose existence check returns no row answers 404, issues no
\* delete call and leaves the store as it is; a delete call follows only a check
\* of the same request that returned a row, and only then is the answer 200 with
\* the path id.
C4_DeleteAfterCheck ==
    [][last'.op = "delete" =>
        LET calls == last'.calls IN
        /\ calls[1].name = "select" /\ calls[1].filter = last'.id
        /\ (~calls[1].raised /\ calls[1].rows = {}) =>
              (last'.status = 404 /\ Len(calls) = 1 /\ todos' = todos)
        /\ \A i \in 1..Len(calls) : calls[i].name = "delete" =>
              /\ i = 2
              /\ calls[i].filter = last'.id
              /\ ~calls[1].raised
              /\ calls[1].rows # {}
        /\ last'.status = 200 =>
              (Len(calls) = 2 /\ calls[2].name = "delete" /\ ~calls[2].raised)
    ]_vars

C4_Witness ==
    /\ last.op = "delete"
    /\ last.status = 404
    /\ Len(last.calls) = 1
    /\ todos # {}

\* C5: a store call that raises never leaves a handler: the CRUD handlers answer
\* 500 with an error, /api/health answers 503 unhealthy/disconnected, and
\* /api/health answers 200 healthy/connected exactly when its read did not raise.
C5_StoreErrorsCaught ==
    last.op # "none" =>
        /\ RaisedCalls # {} =>
              /\ last.kind = "json"
              /\ last.error # ""
              /\ last.status = (IF last.op = "health" THEN 503 ELSE 500)
              /\ last.op = "health" => last.error = "unhealthy/disconnected"
        /\ last.op = "health" =>
              ((last.status = 200 /\ last.error = "healthy/connected") <=> RaisedCalls = {})
        /\ last.kind = "unhandled" => RaisedCalls = {}

C5_Witness ==
    /\ last.op = "health"
    /\ last.status = 503
    /\ RaisedCalls = {1}

\* C6: bad, missing or empty input is answered 400: a POST or PUT body that is
\* absent, empty or not a JSON object never reaches the store and never gets a
\* 500, which is kept for store calls that failed or returned no row.
C6_BadInputIs400 ==
    last.op \in {"create", "update"} =>
        /\ last.body.t # "obj" => (last.status = 400 /\ last.calls = <<>>)
        /\ last.status = 500 => last.calls # <<>>

\* C7: no handler retries: each request issues at most one call of each kind
\* (DELETE: one select, then at most one delete), and issues no further store
\* call once one has failed.
C7_NoRetry ==
    /\ last.op # "none" =>
        LET calls == last.calls
            names == [i \in 1..Len(calls) |-> calls[i].name]
        IN
        /\ \A i \in 1..Len(calls) : calls[i].raised => i = Len(calls)
        /\ CASE last.op = "create" -> names \in {<<>>, <<"insert">>}
             [] last.op = "update" -> names \in {<<>>, <<"update">>}
             [] last.op = "delete" -> names \in {<<"select">>, <<"select", "delete">>}
             [] OTHER -> names = <<"select">>
    /\ \A req \in BagToSet(pending) :
          /\ Len(req.calls) = 1
          /\ req.calls[1].name = "select"
          /\ ~req.calls[1].raised

C7_Witness ==
    /\ last.op = "delete"
    /\ last.status = 500
    /\ Len(last.calls) = 1
    /\ last.calls[1].raised
    /\ Matching(todos, last.id) # {}

\* a JSON value int() is meant to accept: a whole number, or text spelling one
IsWholeNumber(v) == v.t \in {"num", "bool"} \/ (v.t = "str" /\ IsIntText(v.s))

\* C8: GET /divide never divides by zero and never fails: an operand that does
\* not parse gives the invalid-input 400, otherwise b = 0 (also by default) gives
\* the division-by-zero 400, otherwise 200 with a/b; no input gives a 500.
C8_DivideContract ==
    calc.op = "divide" =>
        LET a == ParseArg(calc.a)
            b == ParseArg(calc.b)
        IN
        /\ calc.kind = "json"
        /\ calc.status # 500
        /\ (~a.ok \/ ~b.ok) =>
              (calc.status = 400 /\ calc.error = "Invalid input: 'a' and 'b' must be integers")
        /\ (a.ok /\ b.ok /\ b.val.m = 0) =>
              (calc.status = 400 /\ calc.error = "Division by zero is not allowed")
        /\ (a.ok /\ b.ok /\ b.val.m # 0) =>
              (calc.status = 200 /\ calc.result = Quotient(a.val, b.val))

\* C9: POST /area answers 400 when width or height is missing and 400 when either
\* is not an integer, with a different error; only two integers give 200 with
\* width * height in "square units"; no body gives a 500.
C9_AreaContract ==
    calc.op = "area" =>
        LET body == calc.body
            both == body.t = "obj" /\ {"width", "height"} \subseteq DOMAIN body.f
        IN
        /\ calc.kind = "json"
        /\ calc.status # 500
        /\ ~both => calc.status = 400
        /\ (both /\ ~(IsWholeNumber(body.f.width) /\ IsWholeNumber(body.f.height))) =>
              /\ calc.status = 400
              /\ calc.error # "Missing 'width' or 'height' in JSON body"
        /\ (both /\ IsWholeNumber(body.f.width) /\ IsWholeNumber(body.f.height)) =>
              /\ calc.status = 200
              /\ calc.error = "square units"
              /\ calc.result = IntOf(body.f.width).val * IntOf(body.f.height).val

DeleteCalls == {i \in 1..Len(last.calls) : last.calls[i].name = "delete"}

\* C10: under every interleaving, the existence check keeps DELETE from issuing
\* a delete call for an id that has no row when the call executes, so two
\* concurrent DELETEs of one id do not both delete and answer 200.
C10_NoDanglingDelete ==
    last.op = "delete" => \A i \in DeleteCalls : last.calls[i].rows # {}

\* C10 as amended: the check holds only for the moment it runs: a delete call
\* finds no row exactly when another DELETE of the same id removed the row
\* between this request's check and its delete call.
C10_DanglingOnlyWhenOvertaken ==
    /\ last.op = "delete" =>
          \A i \in DeleteCalls : (last.calls[i].rows = {}) <=> last.raced
    /\ \A req \in BagToSet(pending) : (Matching(todos, req.id) = {}) <=> req.raced

C10_Witness ==
    /\ last.op = "delete"
    /\ last.status = 200
    /\ last.raced
    /\ DeleteCalls = {2}
    /\ last.calls[2].rows = {}

=============================================================================
